---- MODULE Spec2Model ----
(***************************************************************************)
(* CKANServer (ckanext/oaipmh/oaipmh_server.py): the OAI-PMH handler of a  *)
(* CKAN catalog.  The catalog (Package, PackageRevision, Group tables) is  *)
(* the state; every verb of the handler is one action that reads it and    *)
(* leaves its return value in `response`.                                  *)
(***************************************************************************)
EXTENDS Integers, Sequences, FiniteSets, TLC

VARIABLES Package, PackageRevision, Group, response

vars == <<Package, PackageRevision, Group, response>>

(***************************************************************************)
(* Bounds of the model.                                                    *)
(***************************************************************************)
MaxDatasets == 3
MaxTime == 3
MaxCursor == 2

(***************************************************************************)
(* Python values.  A value carries its type, so that isinstance(v, list)   *)
(* and truthiness are computed as Python computes them.                    *)
(***************************************************************************)
PyNone == [t |-> "None"]
PyStr(s) == [t |-> "str", s |-> s]
PyList(xs) == [t |-> "list", items |-> xs]

\* bool(v) of a Python value: None, '' and [] are false.
Truthy(v) ==
    CASE v.t = "None" -> FALSE
      [] v.t = "str" -> v.s # ""
      [] v.t = "list" -> v.items # <<>>

\* `a or b`
PyOr(a, b) == IF Truthy(a) THEN a ELSE b

\* d.get(k, default) of a dict d (a function on its keys)
DictGet(d, k, default) == IF k \in DOMAIN d THEN d[k] ELSE default

\* cursor=None, from_=None, until=None: the absent argument.  `if cursor:`,
\* `if from_:` treat it as false; a positive cursor and a datetime are true.
NoArg == 0

\* set=None.  `if not set:` treats None and '' alike.
NoSet == ""

Min(a, b) == IF a <= b THEN a ELSE b

Digit == <<"1", "2", "3", "4", "5", "6", "7", "8", "9">>

\* datetime.strftime('%Y-%m-%d'); a timestamp is a day of January 2004.
Strftime(day) == "2004-01-0" \o Digit[day]

(***************************************************************************)
(* The catalog's content.                                                  *)
(***************************************************************************)
DatasetId(i) == "d" \o Digit[i]
DatasetName(i) == "dataset-" \o Digit[i]

\* The dict package_show returns for dataset i: geographic, begin and end
\* are '' when the dataset has no such field (the key is then missing).
PackageDict(i, geographic, begin, end, notes) ==
    LET base == ("id" :> PyStr(DatasetId(i)))
             @@ ("name" :> PyStr(DatasetName(i)))
             @@ ("title" :> PyStr(IF i = 2 THEN "" ELSE "Title " \o Digit[i]))
             @@ ("license_title" :> PyStr("CC-BY"))
             @@ ("tags" :> <<[display_name |-> "ecology"], [display_name |-> "birds"]>>)
             @@ ("agent" :> << ("role" :> "author") @@ ("name" :> "Ada"),
                               ("role" :> "author") @@ ("organisation" :> "NINA"),
                               ("role" :> "contributor") @@ ("name" :> "Bo"),
                               ("role" :> "distributor") @@ ("name" :> "Cy") >>)
             @@ ("contact" :> << ("name" :> "Di") @@ ("email" :> "di@example.org") >>)
        g == IF geographic = "" THEN << >> ELSE ("geographic_coverage" :> PyStr(geographic))
        b == IF begin = "" THEN << >> ELSE ("temporal_coverage_begin" :> PyStr(begin))
        e == IF end = "" THEN << >> ELSE ("temporal_coverage_end" :> PyStr(end))
        n == IF notes = "" THEN << >> ELSE ("notes" :> PyStr(notes))
    IN  base @@ g @@ b @@ e @@ n

\* dataset.extras of the datasets: free-form keys, scalar or list values,
\* some of them keys of the computed fields.
ExtrasPool ==
    { << >>,
      ("funder" :> PyStr("Academy")),
      ("coverage" :> PyStr("Europe")),
      ("title" :> PyStr("Alternative title")) @@ ("funder" :> PyStr("Academy")),
      ("keywords" :> PyList(<<PyStr("a"), PyStr("b")>>)),
      ("description" :> PyList(<<PyStr("From extras")>>)) @@ ("version" :> PyStr("2")) }

Geographics == {"", "Finland"}
Begins == {"", "2000-01-01"}
Ends == {"", "2001-01-01"}
Notes == {"", "Some notes"}

\* A Package row, with the package_show dict of the same dataset.
Dataset(i, extras, pkg) ==
    [id |-> DatasetId(i), name |-> DatasetName(i), metadata_created |-> i,
     extras |-> extras, package |-> pkg]

PlainDataset(i) == Dataset(i, << >>, PackageDict(i, "", "", "", ""))

\* A PackageRevision row.
Revision(i, ts) == [continuity_id |-> DatasetId(i), revision_timestamp |-> ts]

\* Two groups: the datasets of odd index and those of even index.
Groups(n) ==
    << [id |-> "g1", name |-> "climate", description |-> "Climate data",
        members |-> {DatasetId(i) : i \in {j \in 1..n : j % 2 = 1}}],
       [id |-> "g2", name |-> "birds", description |-> "Bird surveys",
        members |-> {DatasetId(i) : i \in {j \in 1..n : j % 2 = 0}}] >>

NoResponse == [call |-> [verb |-> "none"], error |-> "", result |-> << >>]

\* Catalogs of n plain datasets, each with one revision at any time.
InitListing ==
    \E n \in 0..MaxDatasets :
      \E ts \in [1..n -> 1..MaxTime] :
        /\ Package = [i \in 1..n |-> PlainDataset(i)]
        /\ PackageRevision = [i \in 1..n |-> Revision(i, ts[i])]
        /\ Group = Groups(n)

\* Catalogs of one dataset with any content.
InitContent ==
    \E x \in ExtrasPool, g \in Geographics, b \in Begins, e \in Ends, nt \in Notes :
        /\ Package = <<Dataset(1, x, PackageDict(1, g, b, e, nt))>>
        /\ PackageRevision = <<Revision(1, 1)>>
        /\ Group = Groups(1)

Init == /\ InitListing \/ InitContent
        /\ response = NoResponse

(***************************************************************************)
(* config, routing and the ckanext.kata helpers the handler reads.         *)
(***************************************************************************)
Config == ("ckan.site_url" :> "http://catalog.example.org") @@ ("email_to" :> "admin@example.org")

\* url_for(controller="package", action='read', id=id)
url_for_package_read(id) == "/dataset/" \o id

\* helpers.get_authors, get_contributors, get_distributors: the agents of a
\* role; helpers.get_contacts: the contacts.
AgentsOfRole(package, role) ==
    SelectSeq(DictGet(package, "agent", << >>), LAMBDA a : DictGet(a, "role", "") = role)

get_authors(package) == AgentsOfRole(package, "author")
get_contributors(package) == AgentsOfRole(package, "contributor")
get_distributors(package) == AgentsOfRole(package, "distributor")
get_contacts(package) == DictGet(package, "contact", << >>)

\* [agent['name'] for agent in agents if 'name' in agent]
NamesOf(agents) ==
    LET named == SelectSeq(agents, LAMBDA a : "name" \in DOMAIN a)
    IN  PyList([i \in 1..Len(named) |-> PyStr(named[i]["name"])])

(***************************************************************************)
(* _record_for_dataset                                                     *)
(***************************************************************************)
\* Lines 44-54: the coverage string.
CoverageString(package) ==
    LET coverage_begin == DictGet(package, "temporal_coverage_begin", PyStr("")).s
        coverage_end == DictGet(package, "temporal_coverage_end", PyStr("")).s
        geographic == DictGet(package, "geographic_coverage", PyStr("")).s
        c1 == IF geographic # "" THEN geographic ELSE ""
    IN  IF coverage_begin # "" \/ coverage_end # ""
        THEN (IF c1 # "" THEN c1 \o "; " ELSE c1) \o coverage_begin \o " - " \o coverage_end
        ELSE c1

\* Lines 56-73: the computed fields.  A field without a value is None.
ComputedMeta(dataset) ==
    LET package == dataset.package
        coverage == CoverageString(package)
        IfPresent(k) == IF Truthy(DictGet(package, k, PyNone))
                        THEN PyList(<<package[k]>>) ELSE PyNone
    IN  ("title" :> PyList(<<PyOr(DictGet(package, "title", PyNone),
                                  DictGet(package, "name", PyNone))>>))
     @@ ("creator" :> NamesOf(get_authors(package)))
     @@ ("publisher" :> NamesOf(get_distributors(package) \o get_contacts(package)))
     @@ ("contributor" :> NamesOf(get_contributors(package)))
     @@ ("identifier" :>
            PyList(<<PyStr(Config["ckan.site_url"] \o url_for_package_read(package["id"].s)),
                     IF Truthy(DictGet(package, "url", PyNone))
                     THEN package["url"] ELSE package["id"]>>))
     @@ ("type" :> PyList(<<PyStr("dataset")>>))
     @@ ("description" :> IfPresent("notes"))
     @@ ("subject" :>
            IF DictGet(package, "tags", << >>) # << >>
            THEN PyList([i \in 1..Len(package["tags"]) |->
                            PyStr(package["tags"][i].display_name)])
            ELSE PyNone)
     @@ ("date" :> IF dataset.metadata_created # NoArg
                   THEN PyList(<<PyStr(Strftime(dataset.metadata_created))>>)
                   ELSE PyNone)
     @@ ("rights" :> IfPresent("license_title"))
     @@ ("coverage" :> IF coverage # "" THEN PyList(<<PyStr(coverage)>>) ELSE PyNone)

\* dict(iters + meta.items()): for a key of both, the computed field is kept.
MergeExtras_computed_wins(meta, extras) ==
    [k \in DOMAIN meta \cup DOMAIN extras |->
        IF k \in DOMAIN meta THEN meta[k] ELSE extras[k]]

\* Line 76: dict(meta.items() + iters): for a key of both, the later item,
\* the one of the extras, is kept.
MergeExtras(meta, extras) ==
    [k \in DOMAIN meta \cup DOMAIN extras |->
        IF k \in DOMAIN extras THEN extras[k] ELSE meta[k]]

\* A normalisation that leaves every value as it is.
Normalize_keep(value) == value

\* Lines 81-84: a value that is no list becomes a one-element list.
Normalize(value) == IF value.t # "list" THEN PyList(<<value>>) ELSE value

\* Lines 77-84.  str(key) keeps the characters of the (ASCII) keys.
NormalizeAll(meta) == [k \in DOMAIN meta |-> Normalize(meta[k])]

\* common.Header(identifier, datestamp, setspec, deleted)
Header(id, datestamp, setspec, deleted) ==
    [id |-> id, datestamp |-> datestamp, setspec |-> setspec, deleted |-> deleted]

\* Line 86: the header of a record.
RecordHeader(dataset) ==
    Header(dataset.id, dataset.metadata_created, <<dataset.name>>, FALSE)

record_for_dataset(dataset) ==
    [header |-> RecordHeader(dataset),
     metadata |-> NormalizeAll(MergeExtras(ComputedMeta(dataset), dataset.extras)),
     about |-> PyNone]

(***************************************************************************)
(* The catalog's query interface, as the handler uses it.                  *)
(***************************************************************************)
\* "No object" is the empty sequence, an object o is <<o>>.
First(rows) == IF rows = << >> THEN << >> ELSE <<rows[1]>>

\* Package.get(reference): by id, then by name; None for an empty reference.
PackageGet(reference) ==
    IF reference = "" THEN << >>
    ELSE LET by_id == SelectSeq(Package, LAMBDA p : p.id = reference)
             by_name == SelectSeq(Package, LAMBDA p : p.name = reference)
         IN  IF by_id # << >> THEN First(by_id) ELSE First(by_name)

\* Group.get that falls back on the first group when none matches.
GroupGet_or_first(reference) ==
    LET found == SelectSeq(Group, LAMBDA g : g.id = reference \/ g.name = reference)
    IN  IF found # << >> THEN First(found) ELSE First(Group)

\* Group.get(reference): by id, then by name.
GroupGet(reference) ==
    IF reference = "" THEN << >>
    ELSE LET by_id == SelectSeq(Group, LAMBDA g : g.id = reference)
             by_name == SelectSeq(Group, LAMBDA g : g.name = reference)
         IN  IF by_id # << >> THEN First(by_id) ELSE First(by_name)

\* Session.query(Package): the rows of the query, one per package.
QueryPackage == Package

\* group.packages(return_query=True): the packages joined to the group's members.
GroupPackages(group) == SelectSeq(Package, LAMBDA p : p.id \in group.members)

\* The three conditions on PackageRevision.revision_timestamp:
\* `> from_`, `< until` and between(..., from_, until), which is inclusive.
RevisionCondition(op, from_, until, ts) ==
    CASE op = "after" -> ts > from_
      [] op = "before" -> ts < until
      [] op = "between" -> from_ <= ts /\ ts <= until

\* query.filter(<condition on PackageRevision.revision_timestamp>).  The query
\* selects from Package, the condition names PackageRevision, and nothing joins
\* the two tables: the rows are those of Package x PackageRevision whose
\* revision satisfies the condition, every package once per such revision.
FilterRevision(rows, op, from_, until) ==
    LET revisions == SelectSeq(PackageRevision,
            LAMBDA r : RevisionCondition(op, from_, until, r.revision_timestamp))
        m == Len(revisions)
    IN  [k \in 1..(Len(rows) * m) |-> rows[((k - 1) \div m) + 1]]

\* The entities of a query's rows: the ORM returns an entity once.
RECURSIVE Unique(_)
Unique(rows) ==
    IF rows = << >> THEN << >>
    ELSE LET init == Unique(SubSeq(rows, 1, Len(rows) - 1))
             last == rows[Len(rows)]
         IN  IF \E i \in 1..Len(init) : init[i].id = last.id THEN init
             ELSE Append(init, last)

\* query.all()
All(rows) == Unique(rows)

\* query[:cursor]: LIMIT cursor, then the entities of those rows.
QuerySlice(rows, cursor) == Unique(SubSeq(rows, 1, Min(cursor, Len(rows))))

\* list[:cursor + 1]: a slice one entry too long.
ListSlice_one_more(xs, cursor) == SubSeq(xs, 1, Min(cursor + 1, Len(xs)))

\* A slice that resumes after the entries the last answer held.
ListSlice_resume(xs, cursor) ==
    LET offset == Len(response.result)
    IN  SubSeq(xs, Min(offset, Len(xs)) + 1, Min(offset + cursor, Len(xs)))

\* list[:cursor]
ListSlice(xs, cursor) == SubSeq(xs, 1, Min(cursor, Len(xs)))

Given(arg) == arg # NoArg

(***************************************************************************)
(* listIdentifiers, lines 101-131.                                         *)
(***************************************************************************)
listIdentifiersPackages(set, from_, until) ==
    IF set = NoSet
    THEN IF ~Given(from_) /\ ~Given(until)
         THEN All(QueryPackage)
         ELSE LET p1 == IF Given(from_)
                        THEN All(FilterRevision(QueryPackage, "after", from_, until))
                        ELSE << >>
                  p2 == IF Given(until)
                        THEN All(FilterRevision(QueryPackage, "before", from_, until))
                        ELSE p1
              IN  IF Given(from_) /\ Given(until)
                  THEN All(FilterRevision(QueryPackage, "between", from_, until))
                  ELSE p2
    ELSE LET group == GroupGet(set)
         IN  IF group # << >>
             THEN LET q0 == GroupPackages(group[1])
                      q1 == IF Given(from_) /\ ~Given(until)
                            THEN FilterRevision(q0, "after", from_, until) ELSE q0
                      q2 == IF Given(until) /\ ~Given(from_)
                            THEN FilterRevision(q1, "before", from_, until) ELSE q1
                      q3 == IF Given(from_) /\ Given(until)
                            THEN FilterRevision(q2, "between", from_, until) ELSE q2
                  IN  All(q3)
             ELSE << >>

\* A header identified by the package's name.
IdentifierHeader_by_name(package) ==
    Header(package.name, package.metadata_created, <<package.name>>, FALSE)

\* Line 129: the header of a listed package.
IdentifierHeader(package) ==
    Header(package.id, package.metadata_created, <<package.name>>, FALSE)

listIdentifiersResult(set, cursor, from_, until) ==
    LET found == listIdentifiersPackages(set, from_, until)
        packages == IF Given(cursor) THEN ListSlice(found, cursor) ELSE found
    IN  [i \in 1..Len(packages) |-> IdentifierHeader(packages[i])]

(***************************************************************************)
(* listRecords, lines 147-177.  `packages` is a list, or (with a set and   *)
(* no date) still the query.                                               *)
(***************************************************************************)
AsList(rows) == [kind |-> "list", rows |-> rows]
AsQuery(rows) == [kind |-> "query", rows |-> rows]

listRecordsPackages(set, from_, until) ==
    IF set = NoSet
    THEN LET p0 == IF ~Given(from_) /\ ~Given(until) THEN All(QueryPackage) ELSE << >>
             p1 == IF Given(from_)
                   THEN All(FilterRevision(QueryPackage, "after", from_, until)) ELSE p0
             p2 == IF Given(until)
                   THEN All(FilterRevision(QueryPackage, "before", from_, until)) ELSE p1
             p3 == IF Given(from_) /\ Given(until)
                   THEN All(FilterRevision(QueryPackage, "between", from_, until)) ELSE p2
         IN  AsList(p3)
    ELSE LET group == GroupGet(set)
         IN  IF group # << >>
             THEN LET q0 == AsQuery(GroupPackages(group[1]))
                      q1 == IF Given(from_) /\ ~Given(until)
                            THEN AsList(All(FilterRevision(q0.rows, "after", from_, until)))
                            ELSE q0
                      q2 == IF Given(until) /\ ~Given(from_)
                            THEN AsList(All(FilterRevision(q1.rows, "before", from_, until)))
                            ELSE q1
                  IN  IF Given(from_) /\ Given(until)
                      THEN AsList(All(FilterRevision(q2.rows, "between", from_, until)))
                      ELSE q2
             ELSE AsList(<< >>)

\* Lines 173-174: packages[:cursor], of the list or of the query.
Truncate(packages, cursor) ==
    IF packages.kind = "query"
    THEN AsList(QuerySlice(packages.rows, cursor))
    ELSE AsList(ListSlice(packages.rows, cursor))

\* Line 175: `for res in packages`, of the list or of the query.
Iterate(packages) ==
    IF packages.kind = "query" THEN All(packages.rows) ELSE packages.rows

listRecordsResult(set, cursor, from_, until) ==
    LET found == listRecordsPackages(set, from_, until)
        packages == Iterate(IF Given(cursor) THEN Truncate(found, cursor) ELSE found)
    IN  [i \in 1..Len(packages) |-> record_for_dataset(packages[i])]

(***************************************************************************)
(* listSets, lines 182-189.                                                *)
(***************************************************************************)
listSetsResult_skip_empty(cursor) ==
    LET filled == SelectSeq(Group, LAMBDA g : g.members # {})
        groups == IF ~Given(cursor) THEN filled ELSE ListSlice(filled, cursor)
    IN  [i \in 1..Len(groups) |->
            <<groups[i].id, groups[i].name, groups[i].description>>]

\* Lines 182-189.
listSetsResult(cursor) ==
    LET groups == IF ~Given(cursor) THEN Group ELSE ListSlice(Group, cursor)
    IN  [i \in 1..Len(groups) |->
            <<groups[i].id, groups[i].name, groups[i].description>>]

(***************************************************************************)
(* The verbs as actions.  A call is the verb with its arguments (the       *)
(* metadataPrefix and batch_size arguments are never read); the response   *)
(* holds the call, the error raised ('' for none) and the returned value   *)
(* (a list as it is, a single value as a one-element sequence).            *)
(***************************************************************************)
Call(verb, identifier, set, cursor, from_, until) ==
    [verb |-> verb, identifier |-> identifier, set |-> set, cursor |-> cursor,
     from_ |-> from_, until |-> until]

Returns(call, result) == [call |-> call, error |-> "", result |-> result]
Raises(call, error) == [call |-> call, error |-> error, result |-> << >>]

ReadOnly == UNCHANGED <<Package, PackageRevision, Group>>

\* Lines 29-37.
identify ==
    /\ response' = Returns(Call("identify", "", NoSet, NoArg, NoArg, NoArg),
           << [repositoryName |-> IF DictGet(Config, "site.title", "") # ""
                                  THEN Config["site.title"] ELSE "repository",
               baseURL |-> "/oai",
               protocolVersion |-> "2.0",
               adminEmails |-> <<DictGet(Config, "email_to", "")>>,
               earliestDatestamp |-> "2004-01-01",
               deletedRecord |-> "no",
               granularity |-> "YYYY-MM-DD",
               compression |-> <<"identity">>] >>)
    /\ ReadOnly

\* Lines 92-95.
getRecord(identifier) ==
    LET call == Call("getRecord", identifier, NoSet, NoArg, NoArg, NoArg)
        package == PackageGet(identifier)
    IN  /\ response' = IF package = << >>
                       THEN Raises(call, "IdDoesNotExistError")
                       ELSE Returns(call, <<record_for_dataset(package[1])>>)
        /\ ReadOnly

listIdentifiers(set, cursor, from_, until) ==
    /\ response' = Returns(Call("listIdentifiers", "", set, cursor, from_, until),
                           listIdentifiersResult(set, cursor, from_, until))
    /\ ReadOnly

\* Lines 136-141.
listMetadataFormats ==
    /\ response' = Returns(Call("listMetadataFormats", "", NoSet, NoArg, NoArg, NoArg),
           << <<"oai_dc", "http://www.openarchives.org/OAI/2.0/oai_dc.xsd",
                "http://www.openarchives.org/OAI/2.0/oai_dc/">>,
              <<"rdf", "http://www.openarchives.org/OAI/2.0/rdf.xsd",
                "http://www.openarchives.org/OAI/2.0/rdf/">> >>)
    /\ ReadOnly

listRecords(set, cursor, from_, until) ==
    /\ response' = Returns(Call("listRecords", "", set, cursor, from_, until),
                           listRecordsResult(set, cursor, from_, until))
    /\ ReadOnly

listSets(cursor) ==
    /\ response' = Returns(Call("listSets", "", NoSet, cursor, NoArg, NoArg),
                           listSetsResult(cursor))
    /\ ReadOnly

\* The arguments of the calls.
Identifiers ==
    {"", "nosuch"} \cup {DatasetId(i) : i \in 1..MaxDatasets}
                   \cup {DatasetName(i) : i \in 1..MaxDatasets}
Sets == {NoSet, "climate", "g2", "nosuch"}
Cursors == {NoArg} \cup 1..MaxCursor
Dates == {NoArg} \cup 1..MaxTime

\* The harvester sends a request when it has the answer to the one before.
Idle == response = NoResponse

\* The harvester sends the request it sent last once more.
Repeat ==
    LET c == response.call
    IN  /\ ~Idle
        /\ \/ c.verb = "identify" /\ identify
           \/ c.verb = "getRecord" /\ getRecord(c.identifier)
           \/ c.verb = "listIdentifiers" /\ listIdentifiers(c.set, c.cursor, c.from_, c.until)
           \/ c.verb = "listMetadataFormats" /\ listMetadataFormats
           \/ c.verb = "listRecords" /\ listRecords(c.set, c.cursor, c.from_, c.until)
           \/ c.verb = "listSets" /\ listSets(c.cursor)

\* The harvester takes the answer.
Deliver ==
    /\ ~Idle
    /\ response' = NoResponse
    /\ ReadOnly

Next ==
    \/ Idle /\ identify
    \/ Idle /\ \E identifier \in Identifiers : getRecord(identifier)
    \/ Idle /\ \E set \in Sets, cursor \in Cursors, from_ \in Dates, until \in Dates :
                  listIdentifiers(set, cursor, from_, until)
    \/ Idle /\ listMetadataFormats
    \/ Idle /\ \E set \in Sets, cursor \in Cursors, from_ \in Dates, until \in Dates :
                  listRecords(set, cursor, from_, until)
    \/ Idle /\ \E cursor \in Cursors : listSets(cursor)
    \/ Repeat
    \/ Deliver

Spec == Init /\ [][Next]_vars

(***************************************************************************)
(* The claims.                                                             *)
(***************************************************************************)
ListVerbs == {"listIdentifiers", "listRecords"}
RecordVerbs == {"getRecord", "listRecords"}

\* The datasets (rows of Package) with this id.
DatasetsWithId(id) == {i \in 1..Len(Package) : Package[i].id = id}

\* The revision timestamps of the dataset with this id.
RevisionTimes(id) ==
    {PackageRevision[i].revision_timestamp :
        i \in {j \in 1..Len(PackageRevision) : PackageRevision[j].continuity_id = id}}

\* The ids a list call returned, in order.
ReturnedIds ==
    [i \in 1..Len(response.result) |->
        IF response.call.verb = "listRecords"
        THEN response.result[i].header.id ELSE response.result[i].id]

\* The first n entries of a sequence.
Take(xs, n) == [i \in 1..Min(n, Len(xs)) |-> xs[i]]

\* The group a set refers to, if any.
GroupsNamed(set) == {i \in 1..Len(Group) : Group[i].id = set \/ Group[i].name = set}

\* C1: getRecord(prefix, identifier): when the catalog lookup resolves the
\* identifier to a dataset, the returned record's Header.id equals the
\* requested identifier; when it resolves to no dataset, the call signals
\* "identifier does not exist" and returns no record.
C1_GetRecordHeaderIsIdentifier ==
    response.call.verb = "getRecord" =>
        IF \E i \in 1..Len(Package) :
               response.call.identifier # ""
               /\ (Package[i].id = response.call.identifier
                   \/ Package[i].name = response.call.identifier)
        THEN /\ response.error = ""
             /\ Len(response.result) = 1
             /\ response.result[1].header.id = response.call.identifier
        ELSE /\ response.error = "IdDoesNotExistError"
             /\ response.result = << >>

\* C2: listIdentifiers and listRecords called with a set that refers to no
\* existing group return an empty list and raise no error, whatever from,
\* until and cursor are.
C2_UnknownSetGivesEmptyList ==
    (/\ response.call.verb \in ListVerbs
     /\ response.call.set # NoSet
     /\ GroupsNamed(response.call.set) = {})
    => (response.error = "" /\ response.result = << >>)

C2_Witness ==
    /\ response.call.verb \in ListVerbs
    /\ response.call.set = "nosuch"
    /\ Given(response.call.cursor)
    /\ Given(response.call.from_)
    /\ Len(Package) >= 2
    /\ response.error = "" /\ response.result = << >>

\* C3: date filtering of listIdentifiers and listRecords, with or without a
\* set: with from and until, only datasets whose revision timestamp lies in
\* [from, until] are returned; with from alone, only those with a revision
\* timestamp strictly greater; with until alone, only those with one strictly
\* less; with neither, all datasets (of the set, if one is given).
C3_DateFilterSelectsByOwnRevision ==
    response.call.verb \in ListVerbs =>
        LET c == response.call
            pool == IF c.set = NoSet THEN Package
                    ELSE IF GroupsNamed(c.set) = {} THEN << >>
                    ELSE LET g == Group[CHOOSE i \in GroupsNamed(c.set) : TRUE]
                         IN  SelectSeq(Package, LAMBDA p : p.id \in g.members)
            poolIds == [i \in 1..Len(pool) |-> pool[i].id]
        IN  \/ /\ Given(c.from_) /\ Given(c.until)
               /\ \A i \in 1..Len(ReturnedIds) :
                    \E ts \in RevisionTimes(ReturnedIds[i]) : c.from_ <= ts /\ ts <= c.until
            \/ /\ Given(c.from_) /\ ~Given(c.until)
               /\ \A i \in 1..Len(ReturnedIds) :
                    \E ts \in RevisionTimes(ReturnedIds[i]) : ts > c.from_
            \/ /\ ~Given(c.from_) /\ Given(c.until)
               /\ \A i \in 1..Len(ReturnedIds) :
                    \E ts \in RevisionTimes(ReturnedIds[i]) : ts < c.until
            \/ /\ ~Given(c.from_) /\ ~Given(c.until)
               /\ ReturnedIds = IF Given(c.cursor) THEN Take(poolIds, c.cursor) ELSE poolIds

\* The list call of the response, made again without a cursor.
Uncapped ==
    LET c == response.call
    IN  IF c.verb = "listIdentifiers"
        THEN listIdentifiersResult(c.set, NoArg, c.from_, c.until)
        ELSE listRecordsResult(c.set, NoArg, c.from_, c.until)

\* C4: for a positive cursor c and a filtered result of n datasets,
\* listIdentifiers and listRecords return exactly the first min(c, n) entries
\* of the filtered result, in the query's order; without a cursor, all n.
C4_CursorTruncation ==
    response.call.verb \in ListVerbs =>
        LET c == response.call.cursor
            n == Len(Uncapped)
        IN  /\ Len(response.result) = IF Given(c) THEN Min(c, n) ELSE n
            /\ \A i \in 1..Len(response.result) : response.result[i] = Uncapped[i]

C4_Witness ==
    /\ response.call.verb \in ListVerbs
    /\ Given(response.call.cursor)
    /\ Len(response.result) = response.call.cursor
    /\ Len(Uncapped) > response.call.cursor

\* The values of the metadata mappings the response holds.
ReturnedMetadata ==
    {response.result[i].metadata : i \in 1..Len(response.result)}

\* C5: every value of the metadata mapping the record-building step returns
\* (getRecord, listRecords) is a list, never a bare scalar, for the computed
\* fields and for the merged extras alike.
C5_MetadataValuesAreLists ==
    (response.call.verb \in RecordVerbs /\ response.error = "") =>
        \A m \in ReturnedMetadata : \A k \in DOMAIN m : m[k].t = "list"

C5_Witness ==
    /\ response.call.verb \in RecordVerbs
    /\ Len(response.result) = 1
    /\ Len(Package) = 1
    /\ "funder" \in DOMAIN Package[1].extras
    /\ Package[1].extras["funder"].t = "str"
    /\ response.result[1].metadata["funder"] = PyList(<<PyStr("Academy")>>)
    /\ response.result[1].metadata["title"].t = "list"

\* The dataset a returned record was built from.
DatasetOf(record) == Package[CHOOSE i \in DatasetsWithId(record.header.id) : TRUE]

\* The string fields of the catalog's representation of a dataset.
FieldOf(dataset, key) ==
    IF key \in DOMAIN dataset.package THEN dataset.package[key].s ELSE ""

\* C6: coverage composition, with geographic coverage g and temporal begin b
\* and end e: [g + "; " + b + " - " + e] when g and one of b, e are present;
\* [b + " - " + e] when g is absent and one of b, e is present; [g] when only
\* g is present; and no coverage key at all when none of g, b, e is present.
\* (Stated for the datasets whose extras hold no coverage of their own.)
C6_CoverageComposition ==
    (response.call.verb \in RecordVerbs /\ response.error = "") =>
        \A i \in 1..Len(response.result) :
            LET r == response.result[i]
                d == DatasetOf(r)
                g == FieldOf(d, "geographic_coverage")
                b == FieldOf(d, "temporal_coverage_begin")
                e == FieldOf(d, "temporal_coverage_end")
                One(s) == PyList(<<PyStr(s)>>)
            IN  "coverage" \notin DOMAIN d.extras =>
                  IF g # "" /\ (b # "" \/ e # "")
                  THEN /\ "coverage" \in DOMAIN r.metadata
                       /\ r.metadata["coverage"] = One(g \o "; " \o b \o " - " \o e)
                  ELSE IF b # "" \/ e # ""
                  THEN /\ "coverage" \in DOMAIN r.metadata
                       /\ r.metadata["coverage"] = One(b \o " - " \o e)
                  ELSE IF g # ""
                  THEN /\ "coverage" \in DOMAIN r.metadata
                       /\ r.metadata["coverage"] = One(g)
                  ELSE "coverage" \notin DOMAIN r.metadata

\* C7: listSets returns one (id, name, description) triple per existing
\* group, in the query's order, with no filtering; with a positive cursor c,
\* the first min(c, number of groups) of those triples.
C7_ListSetsOnePerGroup ==
    response.call.verb = "listSets" =>
        LET c == response.call.cursor
        IN  /\ response.error = ""
            /\ Len(response.result) = IF Given(c) THEN Min(c, Len(Group)) ELSE Len(Group)
            /\ \A i \in 1..Len(response.result) :
                  response.result[i] = <<Group[i].id, Group[i].name, Group[i].description>>

C7_Witness ==
    /\ response.call.verb = "listSets"
    /\ response.call.cursor = 1
    /\ Len(Group) = 2
    /\ Group[2].members = {}
    /\ response.result = << <<"g1", "climate", "Climate data">> >>

\* C8: listRecords and listIdentifiers select the same datasets: with the
\* same set, cursor, from and until, the headers of the records listRecords
\* returns are the headers listIdentifiers returns, each one (dataset id,
\* metadata_created, [dataset name], deleted = false).
C8_SameHeaders ==
    LET c == response.call
        IsHeaderOfDataset(h) ==
            \E i \in 1..Len(Package) :
                h = [id |-> Package[i].id, datestamp |-> Package[i].metadata_created,
                     setspec |-> <<Package[i].name>>, deleted |-> FALSE]
    IN  /\ c.verb = "listRecords" =>
            LET headers == [i \in 1..Len(response.result) |-> response.result[i].header]
            IN  /\ headers = listIdentifiersResult(c.set, c.cursor, c.from_, c.until)
                /\ \A i \in 1..Len(headers) : IsHeaderOfDataset(headers[i])
        /\ c.verb = "listIdentifiers" =>
            LET records == listRecordsResult(c.set, c.cursor, c.from_, c.until)
            IN  /\ response.result = [i \in 1..Len(records) |-> records[i].header]
                /\ \A i \in 1..Len(response.result) : IsHeaderOfDataset(response.result[i])

C8_Witness ==
    /\ response.call.verb = "listRecords"
    /\ response.call.set = "climate"
    /\ response.call.cursor = 1
    /\ ~Given(response.call.from_) /\ ~Given(response.call.until)
    /\ Len(Package) = 3
    /\ Len(response.result) = 1
    /\ response.result[1].header = Header("d1", 1, <<"dataset-1">>, FALSE)

\* A value as a list: itself when it is a list, else the list holding it.
AsListValue(v) == IF v.t = "list" THEN v ELSE [t |-> "list", items |-> <<v>>]

\* C9: the extras are folded in after the computed fields: for a key of both
\* the returned metadata holds the extras' value (list-normalized), not the
\* computed one; a key of one side only is carried over from that side.
C9_ExtrasOverrideComputed ==
    (response.call.verb \in RecordVerbs /\ response.error = "") =>
        \A i \in 1..Len(response.result) :
            LET r == response.result[i]
                d == DatasetOf(r)
                computed == ComputedMeta(d)
            IN  /\ DOMAIN r.metadata = DOMAIN computed \cup DOMAIN d.extras
                /\ \A k \in DOMAIN d.extras : r.metadata[k] = AsListValue(d.extras[k])
                /\ \A k \in DOMAIN computed \ DOMAIN d.extras :
                      r.metadata[k] = AsListValue(computed[k])

C9_Witness ==
    /\ response.call.verb = "getRecord"
    /\ response.error = ""
    /\ Len(Package) = 1
    /\ "title" \in DOMAIN Package[1].extras
    /\ Package[1].package["title"] = PyStr("Title 1")
    /\ response.result[1].metadata["title"] = PyList(<<PyStr("Alternative title")>>)
    /\ response.result[1].metadata["funder"] = PyList(<<PyStr("Academy")>>)
    /\ response.result[1].metadata["type"] = PyList(<<PyStr("dataset")>>)

\* C10: the handler is read-only and keeps no paging state: no call (a
\* failing getRecord included) changes the catalog's datasets and groups, and
\* a call made again with the same arguments, cursor included, returns what it
\* returned the first time.
C10_ReadOnlyNoPagingState ==
    [][ /\ Package' = Package
        /\ PackageRevision' = PackageRevision
        /\ Group' = Group
        /\ (response'.call = response.call => response' = response) ]_vars

C10_Witness ==
    /\ response.call.verb = "listRecords"
    /\ response.call.cursor = 1
    /\ Len(Package) = 3
    /\ Len(response.result) = 1

====
